---- MODULE Spec2Model ----
(***************************************************************************)
(* A model of larva (src/larva.go), a configuration-driven build tool for  *)
(* C/C++ projects: the staleness oracle (needsRecompile, parseDeps,        *)
(* isNewer), the build driver (doBuild, buildTarget, linkTarget), the      *)
(* post-build pipeline (doPostBuild), custom commands (doCommand) and the  *)
(* command runner (run), over a small filesystem with modification times.  *)
(* Spec is the tool at work on a handful of projects, SpecMulti the tool   *)
(* on a project with two executable targets, SpecStale applies the         *)
(* staleness oracle to one source, SpecExpand applies expandVars to one    *)
(* template.                                                               *)
(*                                                                         *)
(* A path is a sequence of strings: the directory, then the pieces of the  *)
(* base name (<<"src", "a", ".c">> is src/a.c).  The filesystem is the     *)
(* pair mtime, data: both functions whose domain is the set of existing    *)
(* files.  The text of a dependency file is a sequence of items, an item   *)
(* being a path (a run of ordinary characters) or one of the characters    *)
(* the parser looks at: colon, blank, backslash, newline, carriage return. *)
(***************************************************************************)
EXTENDS Integers, Sequences, FiniteSets, TLC

VARIABLES
    mtime,      \* existing file -> modification time
    data,       \* existing file -> content
    dirs,       \* existing directories
    now,        \* the clock
    incl,       \* source file -> the headers its text includes
    res,        \* result of the last needsRecompile call
    toml,       \* the content of larva.toml, as toml.DecodeFile reads it
    cfg,        \* global cfg: the configuration the process holds
    mode,       \* global mode: "debug" or "release"
    plat,       \* "linux" or "windows"
    buildDir,   \* global buildDir
    cacheDir,   \* global cacheDir
    pc,         \* position of the process ("idle": no process is running)
    status,     \* exit status of the last process (-1 before the first exit)
    steps,      \* operations the running command still has to perform
    procs,      \* number of processes started so far
    touches,    \* number of files the environment has touched so far
    mainTarget, \* doBuild: name of the executable target ("" if none)
    built,      \* doBuild: target name -> object files
    tq,         \* doBuild: targets still to be handed to buildTarget
    srcq,       \* buildTarget: resolved sources still to be visited
    objects,    \* buildTarget: object paths collected so far
    allObjects, \* doBuild: the object list of the last link command
    pbi,        \* doPostBuild: index of the current post-build step
    pati,       \* doPostBuild: index of the current copy pattern
    files,      \* doPostBuild: matched files still to be visited
    copied,     \* doPostBuild: the counter copied of the current pattern
    inBuild,    \* doPostBuild was called by doBuild
    log,        \* what the process did, in order
    runStart,   \* length of log when the current doBuild run began
    prev,       \* filesystem at the end of the last successful doBuild run
    second,     \* the current doBuild run began on exactly that filesystem:
                \* "none", or "plain", or "fed" when the post-build copies of
                \* that earlier run wrote an input of its compilations
    postStart,  \* length of log when the current doPostBuild run began
    prevPost,   \* filesystem at the end of the last completed doPostBuild run
    secondPost, \* the current doPostBuild run began on exactly that filesystem
    aborted,    \* filesystem at the last exit on a failed compiler invocation,
                \* and the sources compiled in that run before the failure
    resumed,    \* the sources compiled before the failure of the aborted run
                \* on whose filesystem the current doBuild run began
    tmpl,       \* expandVars on its own: the template
    expanded    \* expandVars on its own: the results of the calls so far

vars == <<mtime, data, dirs, now, incl, res, toml, cfg, mode, plat, buildDir, cacheDir, pc,
          status, steps, procs, touches, mainTarget, built, tq, srcq, objects,
          allObjects, pbi, pati, files, copied, inBuild, log, runStart, prev, second,
          postStart, prevPost, secondPost, aborted, resumed, tmpl, expanded>>

----------------------------------------------------------------------------
(* Bounds *)

\* largest modification time in the staleness specification
MaxMTime == 3

\* longest dependency-file text (in items) in the staleness specification
MaxDepLen == 4

\* largest value of the clock in the build specification
MaxTime == 3

\* number of processes (invocations of the tool) in one behaviour
MaxProcs == 2

\* number of times the environment touches a file in one behaviour
MaxTouch == 1

\* longest template (in items) in the expansion specification
MaxTmplLen == 2

----------------------------------------------------------------------------
(* Strings and paths *)

COLON == <<":">>
SPACE == <<" ">>
BSLASH == <<"\\">>
NEWLINE == <<"\n">>
CRETURN == <<"\r">>

\* unicode.IsSpace on the characters of the model
IsSpace(c) == c \in {SPACE, NEWLINE, CRETURN}

\* strings.ReplaceAll on item sequences: non-overlapping, left to right
RECURSIVE ReplaceAll(_, _, _)
ReplaceAll(s, old, new) ==
    IF Len(s) < Len(old) THEN s
    ELSE IF SubSeq(s, 1, Len(old)) = old
         THEN new \o ReplaceAll(SubSeq(s, Len(old) + 1, Len(s)), old, new)
         ELSE <<s[1]>> \o ReplaceAll(Tail(s), old, new)

\* strings.Index for a single character: 0 when absent (Go: -1), else 1-based
Index(s, c) ==
    IF \E i \in 1..Len(s) : s[i] = c
    THEN CHOOSE i \in 1..Len(s) : s[i] = c /\ \A j \in 1..(i - 1) : s[j] # c
    ELSE 0

\* strings.Fields: the maximal runs of non-space items
RECURSIVE FieldsFrom(_, _)
FieldsFrom(s, cur) ==
    IF s = <<>> THEN (IF cur = <<>> THEN <<>> ELSE <<cur>>)
    ELSE IF IsSpace(s[1])
         THEN (IF cur = <<>> THEN <<>> ELSE <<cur>>) \o FieldsFrom(Tail(s), <<>>)
         ELSE FieldsFrom(Tail(s), Append(cur, s[1]))

Fields(s) == FieldsFrom(s, <<>>)

\* filepath.Base: the path without its directory
Base(p) == Tail(p)

\* filepath.Join(dir, name); an empty dir is the working directory
Join(dir, name) == <<IF dir = "" THEN "." ELSE dir>> \o name

\* strings.TrimSuffix on base names
TrimSuffix(name, ext) ==
    IF Len(name) > 0 /\ name[Len(name)] = ext
    THEN SubSeq(name, 1, Len(name) - 1)
    ELSE name

----------------------------------------------------------------------------
(* Filesystem *)

\* os.Stat succeeds
Exists(p) == p \in DOMAIN mtime

\* ModTime of an existing file
ModTime(p) == mtime[p]

\* the file a word of a dependency file names: a word made of one path item
\* names that path, any other word (glued items, stray characters) names a
\* file that does not exist
WordExists(w) == Len(w) = 1 /\ Exists(w[1])

\* every path of the model, in the lexical order filepath.Glob returns
SortedPaths ==
    << <<".", "p", ".png">>, <<".", "q", ".png">>,
       <<"assets", "p", ".png">>, <<"assets", "q", ".png">>,
       <<"ext", "e", ".c">>,
       <<"gen", "h", ".h">>, <<"inc", "h", ".h">>,
       <<"lib", "a", ".c">>, <<"lib", "l", ".c">>,
       <<"out", "a", ".d">>, <<"out", "a", ".o">>,
       <<"out", "b", ".d">>, <<"out", "b", ".o">>,
       <<"out", "e", ".d">>, <<"out", "e", ".o">>,
       <<"out", "game">>, <<"out", "game", ".exe">>,
       <<"out", "h", ".h">>,
       <<"out", "l", ".d">>, <<"out", "l", ".o">>,
       <<"out", "p", ".png">>, <<"out", "q", ".png">>,
       <<"src", "a", ".c">>, <<"src", "b", ".c">> >>

Paths == {SortedPaths[i] : i \in 1..Len(SortedPaths)}

\* a pattern dir/*ext matches the files of dir whose name ends in ext
Match(pat, p) == Len(p) = 3 /\ p[1] = pat.dir /\ p[3] = pat.ext

\* filepath.Glob: the existing files that match, sorted
Glob(pat) == SelectSeq(SortedPaths, LAMBDA p : Exists(p) /\ Match(pat, p))

\* the times a write at this moment can stamp on a file: the clock may have
\* advanced since the last write, or not (coarse timestamps)
WriteTimes == {t \in {now, now + 1} : t <= MaxTime}

\* os.WriteFile and the writes of the external tools: the file is created or
\* overwritten when its directory exists, and nothing happens otherwise
WriteM(m, p, t) == IF p[1] \in dirs THEN (p :> t) @@ m ELSE m
WriteD(d, p, c) == IF p[1] \in dirs THEN (p :> c) @@ d ELSE d

\* a function without the arguments in S
Without(f, S) == [x \in (DOMAIN f) \ S |-> f[x]]

----------------------------------------------------------------------------
(* Staleness oracle *)

\* parseDeps without the removal of the "target:" prefix
parseDepsNoStrip(depFile) ==
    IF depFile \notin DOMAIN data THEN <<>>
    ELSE LET c1 == ReplaceAll(data[depFile], <<BSLASH, NEWLINE>>, <<SPACE>>)
             c2 == ReplaceAll(c1, <<BSLASH, CRETURN, NEWLINE>>, <<SPACE>>)
         IN  Fields(c2)

parseDeps(depFile) ==
    IF depFile \notin DOMAIN data THEN <<>>
    ELSE LET c1 == ReplaceAll(data[depFile], <<BSLASH, NEWLINE>>, <<SPACE>>)
             c2 == ReplaceAll(c1, <<BSLASH, CRETURN, NEWLINE>>, <<SPACE>>)
             idx == Index(c2, COLON)
             c3 == IF idx > 0 THEN SubSeq(c2, idx + 1, Len(c2)) ELSE c2
         IN  Fields(c3)

isNewer(src, dst) ==
    IF ~Exists(src) THEN TRUE
    ELSE IF ~Exists(dst) THEN TRUE
    ELSE ModTime(src) > ModTime(dst)

\* needsRecompile without the loop over the header dependencies
needsRecompileNoDeps(src, obj, dep) ==
    IF ~Exists(obj) THEN TRUE
    ELSE IF ~Exists(src) THEN TRUE
    ELSE ModTime(src) > ModTime(obj)

\* needsRecompile with "not older" in place of "newer"
needsRecompileNotBefore(src, obj, dep) ==
    IF ~Exists(obj) THEN TRUE
    ELSE IF ~Exists(src) THEN TRUE
    ELSE IF ModTime(src) >= ModTime(obj) THEN TRUE
    ELSE LET deps == parseDeps(dep)
         IN  \E i \in 1..Len(deps) :
                WordExists(deps[i]) /\ ModTime(deps[i][1]) >= ModTime(obj)

\* needsRecompile answering that every source is stale
needsRecompileAlways(src, obj, dep) == TRUE

needsRecompile(src, obj, dep) ==
    IF ~Exists(obj) THEN TRUE
    ELSE IF ~Exists(src) THEN TRUE
    ELSE IF ModTime(src) > ModTime(obj) THEN TRUE
    ELSE LET deps == parseDeps(dep)
         IN  \E i \in 1..Len(deps) :
                 WordExists(deps[i]) /\ ModTime(deps[i][1]) > ModTime(obj)

----------------------------------------------------------------------------
(* Configurations: the typed tree toml.DecodeFile hands to the program *)

Pat(dir, ext) == [dir |-> dir, ext |-> ext]

\* the language tag "c99", as characters
C99 == <<"c", "9", "9">>

\* a word of a command template, and the placeholders expandVars knows
Word(w) == <<w>>
PhRoot == <<"{projectRoot}">>
PhOutput == <<"{output}">>
PhExe == <<"{exe}">>
PhVar(k) == <<"{", k, "}">>

\* the zero Target: what cfg.Targets[name] yields for a name that is no key
ZeroTarget ==
    [Kind |-> "", Language |-> <<>>, Sources |-> <<>>, Deps |-> <<>>,
     Debug |-> [Flags |-> <<>>], Release |-> [Flags |-> <<>>],
     Platform |-> [x \in {} |-> [Output |-> ""]]]

BothPlatforms(out) == [x \in {"linux", "windows"} |-> [Output |-> out]]

\* the project of the specification's example, with a second dependency: an
\* executable with two sources and two dependency targets, assets copied
\* after the build
GameCfg ==
    [Project |-> [Name |-> "game", BuildCache |-> "",
                  Vars |-> [x \in {} |-> <<>>]],
     Targets |->
        [n \in {"app", "lib", "ext"} |->
            IF n = "app"
            THEN [Kind |-> "executable", Language |-> C99,
                  Sources |-> <<Pat("src", ".c")>>, Deps |-> <<"lib", "ext">>,
                  Debug |-> [Flags |-> << <<Word("-DOUT="), PhOutput>> >>],
                  Release |-> [Flags |-> << <<Word("-O2")>>,
                                            <<Word("-DEXE="), PhExe>> >>],
                  Platform |-> BothPlatforms("out")]
            ELSE [Kind |-> "object", Language |-> C99,
                  Sources |-> <<Pat(n, ".c")>>, Deps |-> <<>>,
                  Debug |-> [Flags |-> <<>>], Release |-> [Flags |-> <<>>],
                  Platform |-> [x \in {} |-> [Output |-> ""]]]],
     PostBuild |->
        << [Copy |-> <<Pat("assets", ".png")>>,
            RunLinux |-> <<Word("pack"), SPACE, PhOutput>>,
            RunWindows |-> <<>>] >>,
     Commands |->
        [c \in {"clean", "all"} |->
            IF c = "clean"
            THEN [Steps |-> <<>>, Remove |-> <<"out">>]
            ELSE [Steps |-> << <<Word("build")>>,
                               <<Word("exec:"), PhOutput, Word("/"), PhExe>>,
                               <<Word("release")>>,
                               <<Word("post_build")>> >>,
                  Remove |-> <<>>]]]

\* a project whose post-build step copies generated headers into the output
\* directory, from where the sources include them
GenCfg ==
    [Project |-> [Name |-> "game", BuildCache |-> "",
                  Vars |-> [x \in {} |-> <<>>]],
     Targets |->
        [n \in {"app"} |->
            [Kind |-> "executable", Language |-> C99,
             Sources |-> <<Pat("src", ".c")>>, Deps |-> <<>>,
             Debug |-> [Flags |-> <<>>], Release |-> [Flags |-> <<>>],
             Platform |-> BothPlatforms("out")]],
     PostBuild |->
        << [Copy |-> <<Pat("gen", ".h")>>, RunLinux |-> <<>>,
            RunWindows |-> <<>>] >>,
     Commands |-> [c \in {} |-> [Steps |-> <<>>, Remove |-> <<>>]]]

\* a project without a target of kind executable
NoExeCfg ==
    [Project |-> [Name |-> "game", BuildCache |-> "",
                  Vars |-> [x \in {} |-> <<>>]],
     Targets |->
        [n \in {"lib"} |->
            [Kind |-> "object", Language |-> C99,
             Sources |-> <<Pat("lib", ".c")>>, Deps |-> <<>>,
             Debug |-> [Flags |-> << <<Word("-g")>> >>], Release |-> [Flags |-> <<>>],
             Platform |-> BothPlatforms("out")]],
     PostBuild |->
        << [Copy |-> <<Pat("assets", ".png")>>,
            RunLinux |-> <<Word("pack"), SPACE, PhOutput>>,
            RunWindows |-> <<Word("pack.bat")>>],
           [Copy |-> <<>>,
            RunLinux |-> <<Word("sign"), SPACE, PhOutput, Word("/"), PhExe>>,
            RunWindows |-> <<Word("sign.bat")>>] >>,
     Commands |-> [c \in {} |-> [Steps |-> <<>>, Remove |-> <<>>]]]

\* a project whose library names a dependency of its own: app depends on
\* lib, lib on ext
ChainCfg ==
    [Project |-> [Name |-> "game", BuildCache |-> "",
                  Vars |-> [x \in {} |-> <<>>]],
     Targets |->
        [n \in {"app", "lib", "ext"} |->
            [Kind |-> IF n = "app" THEN "executable" ELSE "object",
             Language |-> C99,
             Sources |-> <<Pat(IF n = "app" THEN "src" ELSE n, ".c")>>,
             Deps |-> IF n = "app" THEN <<"lib">>
                      ELSE IF n = "lib" THEN <<"ext">> ELSE <<>>,
             Debug |-> [Flags |-> <<>>], Release |-> [Flags |-> <<>>],
             Platform |-> BothPlatforms("out")]],
     PostBuild |-> <<>>,
     Commands |-> [c \in {} |-> [Steps |-> <<>>, Remove |-> <<>>]]]

\* a project whose executable takes its sources from two directories, and
\* whose post-build command is a variable that is set to nothing
TwoDirCfg ==
    [Project |-> [Name |-> "game", BuildCache |-> "",
                  Vars |-> [x \in {"v"} |-> <<>>]],
     Targets |->
        [n \in {"app"} |->
            [Kind |-> "executable", Language |-> C99,
             Sources |-> <<Pat("src", ".c"), Pat("lib", ".c")>>, Deps |-> <<>>,
             Debug |-> [Flags |-> <<>>], Release |-> [Flags |-> <<>>],
             Platform |-> BothPlatforms("out")]],
     PostBuild |->
        << [Copy |-> <<>>, RunLinux |-> <<PhVar("v"), SPACE>>,
            RunWindows |-> <<>>] >>,
     Commands |-> [c \in {} |-> [Steps |-> <<>>, Remove |-> <<>>]]]

\* a fresh checkout: inputs only, no output directory
FreshTree ==
    [files |-> {<<"src", "a", ".c">>, <<"src", "b", ".c">>, <<"lib", "l", ".c">>,
                <<"ext", "e", ".c">>, <<"inc", "h", ".h">>,
                <<"assets", "p", ".png">>, <<"assets", "q", ".png">>},
     newer |-> {},
     dirs |-> {".", "src", "lib", "ext", "inc", "assets"},
     incl |-> [f \in {<<"src", "a", ".c">>} |-> << <<"inc", "h", ".h">> >>]]

\* a tree in which an earlier post-build run has put h.h into the output
\* directory and gen/h.h has been regenerated since
GenTree ==
    [files |-> {<<"src", "a", ".c">>, <<"src", "b", ".c">>, <<"gen", "h", ".h">>,
                <<"out", "h", ".h">>},
     newer |-> {<<"gen", "h", ".h">>},
     dirs |-> {".", "src", "gen", "out"},
     incl |-> [f \in {<<"src", "a", ".c">>} |-> << <<"out", "h", ".h">> >>]]

\* a tree with one source for each target of the chain
ChainTree ==
    [files |-> {<<"src", "a", ".c">>, <<"lib", "l", ".c">>, <<"ext", "e", ".c">>},
     newer |-> {},
     dirs |-> {".", "src", "lib", "ext"},
     incl |-> [f \in {} |-> <<>>]]

\* a tree in which the library of the chain has no source
NoLibTree ==
    [files |-> {<<"src", "a", ".c">>, <<"ext", "e", ".c">>},
     newer |-> {},
     dirs |-> {".", "src", "lib", "ext"},
     incl |-> [f \in {} |-> <<>>]]

\* a tree in which the executable of the chain has no source of its own
NoSrcTree ==
    [files |-> {<<"lib", "l", ".c">>, <<"ext", "e", ".c">>},
     newer |-> {},
     dirs |-> {".", "lib", "ext"},
     incl |-> [f \in {} |-> <<>>]]

\* a tree with a file a.c in each of two source directories
TwoDirTree ==
    [files |-> {<<"src", "a", ".c">>, <<"lib", "a", ".c">>},
     newer |-> {},
     dirs |-> {".", "src", "lib"},
     incl |-> [f \in {} |-> <<>>]]

\* the projects, each with the tree it is in and the platform it is built on
Scenarios ==
    { [cfg |-> GameCfg, tree |-> FreshTree, plat |-> "linux"],
      [cfg |-> GenCfg, tree |-> GenTree, plat |-> "linux"],
      [cfg |-> NoExeCfg, tree |-> FreshTree, plat |-> "windows"],
      [cfg |-> ChainCfg, tree |-> ChainTree, plat |-> "linux"],
      [cfg |-> ChainCfg, tree |-> NoLibTree, plat |-> "linux"],
      [cfg |-> ChainCfg, tree |-> NoSrcTree, plat |-> "linux"],
      [cfg |-> TwoDirCfg, tree |-> TwoDirTree, plat |-> "linux"] }

\* a project that declares two targets of kind executable, each with an
\* output directory of its own
TwoExeCfg ==
    [Project |-> [Name |-> "game", BuildCache |-> "",
                  Vars |-> [x \in {} |-> <<>>]],
     Targets |->
        [n \in {"app", "tool"} |->
            [Kind |-> "executable", Language |-> C99,
             Sources |-> <<Pat(IF n = "app" THEN "src" ELSE "lib", ".c")>>,
             Deps |-> <<>>,
             Debug |-> [Flags |-> <<>>], Release |-> [Flags |-> <<>>],
             Platform |-> BothPlatforms(IF n = "app" THEN "out" ELSE "bin")]],
     PostBuild |->
        << [Copy |-> <<Pat("assets", ".png")>>,
            RunLinux |-> <<Word("pack"), SPACE, PhOutput>>,
            RunWindows |-> <<>>] >>,
     Commands |->
        [c \in {"clean", "all"} |->
            IF c = "clean"
            THEN [Steps |-> <<>>, Remove |-> <<"out", "bin">>]
            ELSE [Steps |-> << <<Word("build")>>,
                               <<Word("exec:"), PhOutput, Word("/"), PhExe>>,
                               <<Word("release")>>,
                               <<Word("post_build")>>,
                               <<Word("build")>> >>,
                  Remove |-> <<>>]]]

\* a tree with one source for each of the two executables, and an asset
TwoExeTree ==
    [files |-> {<<"src", "a", ".c">>, <<"lib", "l", ".c">>,
                <<"assets", "p", ".png">>},
     newer |-> {},
     dirs |-> {".", "src", "lib", "assets"},
     incl |-> [f \in {} |-> <<>>]]

\* the projects with more than one executable target
MultiScenarios ==
    { [cfg |-> TwoExeCfg, tree |-> TwoExeTree, plat |-> "linux"] }

\* the files the environment edits: everything outside the output directories
IsInput(p) == p[1] \notin {"out", "."}

----------------------------------------------------------------------------
(* Helpers of the program *)

\* exeName; runtime.GOOS is the platform the process detected
exeName(name) == IF plat = "windows" THEN <<name, ".exe">> ELSE <<name>>

sourceExt(lang) ==
    IF Len(lang) >= 3 /\ SubSeq(lang, 1, 3) = <<"c", "+", "+">> THEN ".cpp" ELSE ".c"

\* a string as command text: one word, or nothing for the empty string
StrItems(str) == IF str = "" THEN <<>> ELSE <<Word(str)>>

\* the enumerations of a finite set: the orders a Go map can be ranged in
Perms(S) ==
    {f \in [1..Cardinality(S) -> S] : \A i, j \in 1..Cardinality(S) : f[i] = f[j] => i = j}

\* the loop over cfg.Project.Vars, ranged in the order ks
RECURSIVE ExpandUser(_, _)
ExpandUser(s, ks) ==
    IF ks = <<>> THEN s
    ELSE ExpandUser(ReplaceAll(s, <<PhVar(Head(ks))>>, cfg.Project.Vars[Head(ks)]),
                    Tail(ks))

\* expandVars, with the user-defined variables ranged in the order ks
expandVars(s, ks) ==
    LET s1 == ReplaceAll(s, <<PhRoot>>, <<Word("/work")>>)
        s2 == ReplaceAll(s1, <<PhOutput>>, StrItems(buildDir))
        exe == exeName(cfg.Project.Name)
        s3 == ReplaceAll(s2, <<PhExe>>, [i \in 1..Len(exe) |-> Word(exe[i])])
    IN  ExpandUser(s3, ks)

VarOrders == Perms(DOMAIN cfg.Project.Vars)

\* cfg.Targets[name]: the zero value for a missing key
TargetOf(name) ==
    IF name \in DOMAIN cfg.Targets THEN cfg.Targets[name] ELSE ZeroTarget

\* t.Platform[plat].Output, "" when the overlay is absent
OutputOf(t) == IF plat \in DOMAIN t.Platform THEN t.Platform[plat].Output ELSE ""

\* doBuild taking the main target among the targets of any kind
AnyKind == DOMAIN cfg.Targets

Executables == {n \in DOMAIN cfg.Targets : cfg.Targets[n].Kind = "executable"}

\* the output directories main can take from configuration c: the overlay of
\* an executable target that names one (the first such target the range over
\* the map meets), "" when there is none
BuildDirs(c) ==
    LET named == {n \in DOMAIN c.Targets :
                    /\ c.Targets[n].Kind = "executable"
                    /\ plat \in DOMAIN c.Targets[n].Platform
                    /\ c.Targets[n].Platform[plat].Output # ""}
    IN  IF named = {} THEN {""} ELSE {c.Targets[n].Platform[plat].Output : n \in named}

\* the matches of all patterns of a target, in pattern order
RECURSIVE GlobAll(_)
GlobAll(pats) == IF pats = <<>> THEN <<>> ELSE Glob(Head(pats)) \o GlobAll(Tail(pats))

\* built[dep]..., appended in the order of names; nil for a missing key
RECURSIVE Collect(_, _)
Collect(b, names) ==
    IF names = <<>> THEN <<>>
    ELSE (IF Head(names) \in DOMAIN b THEN b[Head(names)] ELSE <<>>)
         \o Collect(b, Tail(names))

\* an object path that keeps the directory of the source in the name
ObjPathKeepDir(t, src) ==
    Join(cacheDir, <<src[1], "_">> \o
                   Append(TrimSuffix(Base(src), sourceExt(t.Language)), ".o"))

\* object and dependency-file path of a source of target t
ObjPath(t, src) ==
    Join(cacheDir, Append(TrimSuffix(Base(src), sourceExt(t.Language)), ".o"))
DepPath(obj) == Append(TrimSuffix(obj, ".o"), ".d")

\* the dependency file the compiler writes with -MMD -MF
RECURSIVE DepTail(_)
DepTail(hs) ==
    IF hs = <<>> THEN <<>>
    ELSE <<SPACE, BSLASH, NEWLINE, SPACE, Head(hs)>> \o DepTail(Tail(hs))
DepText(obj, src) ==
    <<obj, COLON, SPACE, src>> \o DepTail(IF src \in DOMAIN incl THEN incl[src] ELSE <<>>)

\* the compiler can succeed only when the source and its headers are there
CanCompile(src) ==
    /\ Exists(src)
    /\ src \in DOMAIN incl => \A i \in 1..Len(incl[src]) : Exists(incl[src][i])

\* the entries of the log: what was done (k), for which target (t), to which
\* file or with which command (f), whether it succeeded (ok), and in which
\* post-build step (step, 0 outside the post-build steps)
Ev(k, t, f, ok) ==
    [k |-> k, t |-> t, f |-> f, ok |-> ok,
     step |-> IF pc \in {"copy", "hook"} THEN pbi ELSE 0]

\* run: echo the command (printCmd), then execute it
RunEvents(k, t, f, ok) == <<Ev("echo", t, f, TRUE), Ev(k, t, f, ok)>>

\* one step of a custom command, as doCommand's switch reads it
StepOp(step) ==
    IF step = <<Word("build")>> THEN [op |-> "doBuild", arg |-> <<>>]
    ELSE IF step = <<Word("post_build")>> THEN [op |-> "doPostBuild", arg |-> <<>>]
    ELSE IF Len(step) > 0 /\ step[1] = Word("exec:")
         THEN [op |-> "exec", arg |-> Tail(step)]
    ELSE [op |-> "none", arg |-> <<>>]

StepOps(ss) == [i \in 1..Len(ss) |-> StepOp(ss[i])]

Op(o) == [op |-> o, arg |-> <<>>]

\* the commands of main's switch, and the custom commands of the configuration
Commands == {"build", "release", "play", "assets", "clean"} \cup DOMAIN toml.Commands

NoPrev == [ok |-> FALSE, m |-> <<>>, d |-> <<>>, hit |-> FALSE]
NoAbort == [ok |-> FALSE, m |-> <<>>, d |-> <<>>, done |-> {}]

----------------------------------------------------------------------------
(* The process *)

\* os.Exit(code), and the end of main
Exit(code) == pc' = "idle" /\ status' = code /\ steps' = <<>>

\* the next operation of the command, after the current one returned
Return == pc' = "step" /\ steps' = Tail(steps)

fsVars == <<mtime, data, dirs, now>>
envVars == <<incl, toml, plat, touches, tmpl, expanded>>
cfgVars == <<cfg, mode>>
buildVars == <<mainTarget, built, tq, srcq, objects, allObjects>>
postVars == <<pbi, pati, files, copied, inBuild>>
runVars == <<runStart, prev, second, aborted, resumed>>
postRunVars == <<postStart, prevPost, secondPost>>

\* the events of the current doBuild run: from its "begin" to its
\* "succeeded", or to the end of the log while the run is going on
RunEnd ==
    IF \E i \in (runStart + 1)..Len(log) : log[i].k = "succeeded"
    THEN CHOOSE i \in (runStart + 1)..Len(log) : log[i].k = "succeeded"
    ELSE Len(log)
RunIdx == (runStart + 1)..RunEnd

\* the events of the current doPostBuild run
PostIdx == (postStart + 1)..Len(log)

\* the call of doPostBuild on filesystem m, d, after the events l
EnterPost(l, m, d) ==
    /\ pc' = "post" /\ pbi' = 1
    /\ log' = Append(l, Ev("postbuild", "", <<>>, TRUE))
    /\ postStart' = Len(l)
    /\ secondPost' = (prevPost.ok /\ prevPost.m = m /\ prevPost.d = d)

\* main: a process starts with command cmd
main(cmd) ==
    /\ pc = "idle" /\ procs < MaxProcs
    /\ procs' = procs + 1
    /\ cfg' = toml
    /\ mode' = IF cmd = "release" THEN "release" ELSE "debug"
    /\ \E out \in BuildDirs(toml) :
          /\ buildDir' = out
          /\ cacheDir' = IF toml.Project.BuildCache = "" THEN out
                         ELSE toml.Project.BuildCache
    /\ steps' = CASE cmd \in {"build", "release"} -> <<Op("doBuild")>>
                  [] cmd = "play" -> <<Op("doBuild"), Op("doExec")>>
                  [] cmd = "assets" -> <<Op("doPostBuild")>>
                  [] cmd = "clean" -> <<Op("doClean")>>
                  [] OTHER -> StepOps(toml.Commands[cmd].Steps)
    /\ pc' = "step" /\ status' = -1 /\ log' = <<>>
    /\ runStart' = 0 /\ second' = "none" /\ resumed' = {}
    /\ postStart' = 0 /\ secondPost' = FALSE
    /\ UNCHANGED <<fsVars, envVars, res, buildVars, postVars, prev, prevPost,
                   aborted>>

\* main returns: the process exits with status 0
exit0 ==
    /\ pc = "step" /\ steps = <<>>
    /\ pc' = "idle" /\ status' = 0
    /\ UNCHANGED <<fsVars, envVars, cfgVars, res, buildDir, cacheDir, steps, procs,
                   buildVars, postVars, log, runVars, postRunVars>>

\* the dependency lists of the targets in names, one after the other
RECURSIVE DepsOfDeps(_)
DepsOfDeps(names) ==
    IF names = <<>> THEN <<>>
    ELSE TargetOf(Head(names)).Deps \o DepsOfDeps(Tail(names))

\* a doBuild that also builds the dependencies of the dependencies
BuildOrderTransitive(m) ==
    DepsOfDeps(cfg.Targets[m].Deps) \o cfg.Targets[m].Deps \o <<m>>

\* the targets doBuild hands to buildTarget, in order: the dependencies of
\* the executable target, then the executable target
BuildOrder(m) == cfg.Targets[m].Deps \o <<m>>

\* doBuild, up to the first call of buildTarget; without an executable
\* target, up to the call of doPostBuild
doBuild ==
    /\ pc = "step" /\ steps # <<>> /\ Head(steps).op = "doBuild"
    /\ dirs' = dirs \cup ({buildDir, cacheDir} \ {""})
    /\ \E m \in (IF Executables = {} THEN {""} ELSE Executables) :
          /\ mainTarget' = m
          /\ IF m # ""
             THEN /\ tq' = BuildOrder(m)
                  /\ pc' = "buildTarget"
                  /\ log' = Append(log, Ev("begin", m, <<>>, TRUE))
                  /\ UNCHANGED <<pbi, inBuild, postStart, secondPost>>
             ELSE /\ tq' = <<>>
                  /\ inBuild' = TRUE
                  /\ EnterPost(Append(log, Ev("begin", m, <<>>, TRUE)), mtime, data)
    /\ built' = [x \in {} |-> <<>>]
    /\ runStart' = Len(log)
    /\ second' = IF prev.ok /\ prev.m = mtime /\ prev.d = data
                  THEN (IF prev.hit THEN "fed" ELSE "plain")
                  ELSE "none"
    /\ resumed' = IF aborted.ok /\ aborted.m = mtime /\ aborted.d = data
                   THEN aborted.done
                   ELSE {}
    /\ UNCHANGED <<mtime, data, now, envVars, cfgVars, res, buildDir, cacheDir, status,
                   steps, procs, srcq, objects, allObjects, pati, files, copied,
                   prev, prevPost, aborted>>

\* where doBuild goes on when buildTarget has returned and the targets in
\* rest are still to be built
AfterTargetLinkEarly(rest) == "link"

AfterTargetLinkIfCompiled(rest) ==
    IF rest # <<>> THEN "buildTarget"
    ELSE IF \E i \in RunIdx : log[i].k = "cc" THEN "link" ELSE "post"

\* a doBuild that stops building when buildTarget found no source
AfterTargetEmptyIsFinal(rest) ==
    IF pc = "buildTarget" THEN "post"
    ELSE IF rest = <<>> THEN "link" ELSE "buildTarget"

AfterTarget(rest) == IF rest = <<>> THEN "link" ELSE "buildTarget"

\* the loop "flags[i] = expandVars(f)" of buildTarget: flags is the flag
\* slice of the target in cfg for the current mode, so the loop writes the
\* expanded strings into the configuration
ExpandFlags(name, ks) ==
    IF name \notin DOMAIN cfg.Targets THEN cfg
    ELSE IF mode = "release"
    THEN [cfg EXCEPT !.Targets[name].Release.Flags =
                        [i \in 1..Len(@) |-> expandVars(@[i], ks)]]
    ELSE [cfg EXCEPT !.Targets[name].Debug.Flags =
                        [i \in 1..Len(@) |-> expandVars(@[i], ks)]]

\* buildTarget, up to the loop over the sources
buildTarget ==
    /\ pc = "buildTarget"
    /\ LET name == Head(tq)
           sources == GlobAll(TargetOf(name).Sources)
       IN  IF sources = <<>>
           THEN /\ log' = log \o <<Ev("warn", name, <<>>, TRUE),
                                   Ev("built", name, <<>>, TRUE)>>
                /\ built' = (name :> <<>>) @@ built
                /\ tq' = Tail(tq)
                /\ pc' = AfterTarget(Tail(tq))
                /\ UNCHANGED <<srcq, objects, cfg>>
           ELSE /\ srcq' = sources /\ objects' = <<>>
                /\ pc' = "compile"
                /\ \E ks \in VarOrders : cfg' = ExpandFlags(name, ks)
                /\ UNCHANGED <<log, built, tq>>
    /\ UNCHANGED <<fsVars, envVars, mode, res, buildDir, cacheDir, status, steps,
                   procs, mainTarget, allObjects, postVars, runVars, postRunVars>>

\* what follows the visit of one source, after the events l: the next
\* source, or the return of buildTarget to doBuild
NextSource(l, obj) ==
    /\ objects' = Append(objects, obj)
    /\ srcq' = Tail(srcq)
    /\ IF Tail(srcq) = <<>>
       THEN /\ built' = (Head(tq) :> Append(objects, obj)) @@ built
            /\ tq' = Tail(tq)
            /\ log' = Append(l, Ev("built", Head(tq), <<>>, TRUE))
            /\ pc' = AfterTarget(Tail(tq))
       ELSE /\ pc' = "compile" /\ log' = l /\ UNCHANGED <<built, tq>>
    /\ UNCHANGED <<status, steps>>

\* run's error check: the caller goes on only when cmd.Run() returned no
\* error, otherwise the process exits with status 1
runIgnoringError(ok) == "return"

run(ok) == IF ok THEN "return" ELSE "exit"

\* one iteration of buildTarget's loop over the sources
compileSource ==
    /\ pc = "compile"
    /\ LET name == Head(tq)
           src == Head(srcq)
           obj == ObjPath(TargetOf(name), src)
           dep == DepPath(obj)
       IN  /\ res' = needsRecompile(src, obj, dep)
           /\ IF needsRecompile(src, obj, dep)
              THEN \E ok \in {FALSE} \cup {b \in {TRUE} : CanCompile(src)} :
                   \E t \in (IF ok THEN WriteTimes ELSE {now}) :
                     /\ mtime' = IF ok THEN WriteM(WriteM(mtime, obj, t), dep, t)
                                 ELSE mtime
                     /\ data' = IF ok
                                THEN WriteD(WriteD(data, obj, <<src>>), dep,
                                            DepText(obj, src))
                                ELSE data
                     /\ now' = t
                     /\ IF run(ok) = "return"
                        THEN /\ NextSource(log \o RunEvents("cc", name, src, ok), obj)
                             /\ UNCHANGED aborted
                        ELSE /\ Exit(1)
                             /\ log' = log \o RunEvents("cc", name, src, ok)
                             /\ aborted' =
                                  [ok |-> TRUE, m |-> mtime, d |-> data,
                                   done |-> {log[i].f : i \in
                                      {j \in RunIdx : log[j].k = "cc" /\ log[j].ok}}]
                             /\ UNCHANGED <<built, tq, srcq, objects>>
              ELSE /\ NextSource(Append(log, Ev("skip", name, src, TRUE)), obj)
                   /\ UNCHANGED <<mtime, data, now, aborted>>
    /\ UNCHANGED <<dirs, envVars, cfgVars, buildDir, cacheDir, procs, mainTarget,
                   allObjects, postVars, runStart, prev, second, resumed,
                   postRunVars>>

\* the object list doBuild hands to linkTarget
LinkObjectsMainFirst(b, m) == Collect(b, <<m>>) \o Collect(b, cfg.Targets[m].Deps)

LinkObjects(b, m) == Collect(b, cfg.Targets[m].Deps) \o Collect(b, <<m>>)

\* the link step of doBuild: the object list, linkTarget, and the call of
\* doPostBuild; the linker can succeed only when it is given objects and
\* all of them are there
linkTarget ==
    /\ pc = "link"
    /\ LET objs == LinkObjects(built, mainTarget)
           output == Join(buildDir, exeName(cfg.Project.Name))
       IN  /\ allObjects' = objs
           /\ \E ok \in {FALSE} \cup
                        {b \in {TRUE} : /\ objs # <<>>
                                         /\ \A i \in 1..Len(objs) : Exists(objs[i])} :
              \E w \in (IF ok THEN WriteTimes ELSE {now}) :
                /\ mtime' = IF ok THEN WriteM(mtime, output, w) ELSE mtime
                /\ data' = IF ok THEN WriteD(data, output, objs) ELSE data
                /\ now' = w
                /\ IF run(ok) = "return"
                   THEN /\ inBuild' = TRUE
                        /\ EnterPost(log \o RunEvents("link", mainTarget, output, ok),
                                     mtime', data')
                        /\ UNCHANGED <<status, steps>>
                   ELSE /\ Exit(1)
                        /\ log' = log \o RunEvents("link", mainTarget, output, ok)
                        /\ UNCHANGED <<pbi, inBuild, postStart, secondPost>>
    /\ UNCHANGED <<dirs, envVars, cfgVars, res, buildDir, cacheDir, procs, mainTarget,
                   built, tq, srcq, objects, pati, files, copied, runVars,
                   prevPost>>

\* doPostBuild called by main ("assets") or by doCommand ("post_build")
doPostBuild ==
    /\ pc = "step" /\ steps # <<>> /\ Head(steps).op = "doPostBuild"
    /\ inBuild' = FALSE
    /\ EnterPost(log, mtime, data)
    /\ UNCHANGED <<fsVars, envVars, cfgVars, res, buildDir, cacheDir, status, steps,
                   procs, buildVars, pati, files, copied, runVars, prevPost>>

\* a file that is an input of the compilations: a source, or a file that a
\* dependency file names
IsSourceExt(p) == Len(p) = 3 /\ p[3] \in {".c", ".cpp"}
IsDepFile(p) == Len(p) = 3 /\ p[3] = ".d"
CompileInput(p) ==
    \/ IsSourceExt(p)
    \/ \E d \in DOMAIN data : IsDepFile(d) /\ \E k \in 1..Len(data[d]) : data[d][k] = p

\* the head of the loop over cfg.PostBuild; at its end doPostBuild returns,
\* and doBuild prints its success message and returns too
postStep ==
    /\ pc = "post"
    /\ IF pbi <= Len(cfg.PostBuild)
       THEN /\ pc' = "pattern" /\ pati' = 1
            /\ UNCHANGED <<steps, log, prev, prevPost>>
       ELSE /\ Return
            /\ log' = IF inBuild THEN Append(log, Ev("succeeded", "", <<>>, TRUE))
                      ELSE log
            /\ prev' = IF inBuild
                       THEN [ok |-> TRUE, m |-> mtime, d |-> data,
                             hit |-> \E i \in PostIdx :
                                        /\ log[i].k = "copy" /\ log[i].ok
                                        /\ CompileInput(Join(buildDir, Base(log[i].f)))]
                       ELSE prev
            /\ prevPost' = [ok |-> TRUE, m |-> mtime, d |-> data]
            /\ UNCHANGED pati
    /\ UNCHANGED <<fsVars, envVars, cfgVars, res, buildDir, cacheDir, status, procs,
                   buildVars, pbi, files, copied, inBuild, runStart, second,
                   aborted, resumed, postStart, secondPost>>

\* the head of the loop over pb.Copy: the pattern is expanded; after the last
\* pattern comes the platform command
copyPattern ==
    /\ pc = "pattern"
    /\ IF pati <= Len(cfg.PostBuild[pbi].Copy)
       THEN /\ files' = Glob(cfg.PostBuild[pbi].Copy[pati])
            /\ copied' = 0
            /\ pc' = "copy"
       ELSE /\ pc' = "hook"
            /\ UNCHANGED <<files, copied>>
    /\ UNCHANGED <<fsVars, envVars, cfgVars, res, buildDir, cacheDir, status, steps,
                   procs, buildVars, pbi, pati, inBuild, log, runVars,
                   postRunVars>>

\* one iteration of the loop over the matched files (the event records
\* whether os.WriteFile succeeded, which the program does not look at);
\* after the last file the count is reported and the next pattern is taken
copyFile ==
    /\ pc = "copy"
    /\ IF files # <<>>
       THEN LET f == Head(files)
                dst == Join(buildDir, Base(f))
            IN  /\ files' = Tail(files)
                /\ IF isNewer(f, dst)
                   THEN \E t \in WriteTimes :
                          /\ mtime' = WriteM(mtime, dst, t)
                          /\ data' = WriteD(data, dst, data[f])
                          /\ now' = t
                          /\ copied' = copied + 1
                          /\ log' = Append(log, Ev("copy", "", f, dst[1] \in dirs))
                   ELSE UNCHANGED <<mtime, data, now, copied, log>>
                /\ UNCHANGED <<pc, pati>>
       ELSE /\ log' = IF copied > 0
                      THEN Append(log, Ev("copied", "", <<>>, TRUE))
                      ELSE log
            /\ pc' = "pattern" /\ pati' = pati + 1
            /\ UNCHANGED <<mtime, data, now, files, copied>>
    /\ UNCHANGED <<dirs, envVars, cfgVars, res, buildDir, cacheDir, status, steps, procs,
                   buildVars, pbi, inBuild, runVars, postRunVars>>

\* the command template of a post-build step, always the one for linux
PlatformCommandLinux(pb) == pb.RunLinux

\* the command template of a post-build step for the active platform
PlatformCommand(pb) == IF plat = "windows" THEN pb.RunWindows ELSE pb.RunLinux

\* the platform command of a post-build step
runHook ==
    /\ pc = "hook"
    /\ LET cmdStr == PlatformCommand(cfg.PostBuild[pbi])
       IN  IF cmdStr # <<>>
           THEN \E ks \in VarOrders :
                  LET parts == Fields(expandVars(cmdStr, ks))
                  IN  IF parts = <<>>
                      THEN \* parts[0]: index out of range, the process panics
                           /\ Exit(2)
                           /\ log' = Append(log, Ev("panic", "", <<>>, FALSE))
                           /\ UNCHANGED pbi
                      ELSE \E ok \in BOOLEAN :
                             /\ log' = log \o RunEvents("hook", "", parts[1], ok)
                             /\ IF run(ok) = "return"
                                THEN /\ pc' = "post" /\ pbi' = pbi + 1
                                     /\ UNCHANGED <<status, steps>>
                                ELSE /\ Exit(1)
                                     /\ UNCHANGED pbi
           ELSE /\ pc' = "post" /\ pbi' = pbi + 1
                /\ UNCHANGED <<status, steps, log>>
    /\ UNCHANGED <<fsVars, envVars, cfgVars, res, buildDir, cacheDir, procs, buildVars,
                   pati, files, copied, inBuild, runVars, postRunVars>>

\* doExec ("play"): the built executable is run and its result is dropped
doExec ==
    /\ pc = "step" /\ steps # <<>> /\ Head(steps).op = "doExec"
    /\ \E ok \in BOOLEAN :
         LET exe == Join(buildDir, exeName(cfg.Project.Name))
         IN  log' = log \o <<Ev("running", "", exe, TRUE), Ev("play", "", exe, ok)>>
    /\ Return
    /\ UNCHANGED <<fsVars, envVars, cfgVars, res, buildDir, cacheDir, status, procs,
                   buildVars, postVars, runVars, postRunVars>>

\* an "exec:" step of doCommand: the path is expanded and run, the result
\* of cmd.Run() is dropped
execStep ==
    /\ pc = "step" /\ steps # <<>> /\ Head(steps).op = "exec"
    /\ \E ks \in VarOrders : \E ok \in BOOLEAN :
         log' = Append(log, Ev("exec", "", expandVars(Head(steps).arg, ks), ok))
    /\ Return
    /\ UNCHANGED <<fsVars, envVars, cfgVars, res, buildDir, cacheDir, status, procs,
                   buildVars, postVars, runVars, postRunVars>>

\* a step of doCommand that matches no case of the switch
otherStep ==
    /\ pc = "step" /\ steps # <<>> /\ Head(steps).op = "none"
    /\ Return
    /\ UNCHANGED <<fsVars, envVars, cfgVars, res, buildDir, cacheDir, status, procs,
                   buildVars, postVars, log, runVars, postRunVars>>

\* doClean: every directory of the clean command is removed with its files
doClean ==
    /\ pc = "step" /\ steps # <<>> /\ Head(steps).op = "doClean"
    /\ LET gone == IF "clean" \in DOMAIN cfg.Commands
                   THEN {cfg.Commands["clean"].Remove[i] :
                            i \in 1..Len(cfg.Commands["clean"].Remove)}
                   ELSE {}
           rm == {p \in DOMAIN mtime : p[1] \in gone}
       IN  /\ mtime' = Without(mtime, rm)
           /\ data' = Without(data, rm)
           /\ dirs' = dirs \ gone
    /\ log' = Append(log, Ev("cleaned", "", <<>>, TRUE))
    /\ Return
    /\ UNCHANGED <<now, envVars, cfgVars, res, buildDir, cacheDir, status, procs,
                   buildVars, postVars, runVars, postRunVars>>

\* the environment, between two processes: a file is edited or touched
touch(f) ==
    /\ pc = "idle" /\ touches < MaxTouch
    /\ Exists(f) /\ IsInput(f)
    /\ now < MaxTime
    /\ mtime' = (f :> now + 1) @@ mtime
    /\ now' = now + 1
    /\ touches' = touches + 1
    /\ UNCHANGED <<data, dirs, incl, toml, cfgVars, plat, tmpl, expanded, res,
                   buildDir, cacheDir, pc, status, steps, procs, buildVars,
                   postVars, log, runVars, postRunVars>>

Init ==
    /\ \E sc \in Scenarios :
         /\ toml = sc.cfg /\ cfg = sc.cfg
         /\ mtime = [f \in sc.tree.files |-> IF f \in sc.tree.newer THEN 2 ELSE 1]
         /\ data = [f \in sc.tree.files |-> <<f>>]
         /\ dirs = sc.tree.dirs
         /\ incl = sc.tree.incl
         /\ now = IF sc.tree.newer = {} THEN 1 ELSE 2
         /\ plat = sc.plat
    /\ res = FALSE /\ mode = "debug"
    /\ aborted = NoAbort /\ resumed = {} /\ tmpl = <<>> /\ expanded = <<>>
    /\ buildDir = "" /\ cacheDir = ""
    /\ pc = "idle" /\ status = -1 /\ steps = <<>> /\ procs = 0 /\ touches = 0
    /\ mainTarget = "" /\ built = [x \in {} |-> <<>>] /\ tq = <<>>
    /\ srcq = <<>> /\ objects = <<>> /\ allObjects = <<>>
    /\ pbi = 1 /\ pati = 1 /\ files = <<>> /\ copied = 0 /\ inBuild = FALSE
    /\ log = <<>> /\ runStart = 0 /\ prev = NoPrev /\ second = "none"
    /\ postStart = 0 /\ prevPost = NoPrev /\ secondPost = FALSE

Next ==
    \/ \E cmd \in Commands : main(cmd)
    \/ exit0
    \/ doBuild
    \/ buildTarget
    \/ compileSource
    \/ linkTarget
    \/ doPostBuild
    \/ postStep
    \/ copyPattern
    \/ copyFile
    \/ runHook
    \/ doExec
    \/ execStep
    \/ otherStep
    \/ doClean
    \/ \E f \in Paths : touch(f)

Spec == Init /\ [][Next]_vars

----------------------------------------------------------------------------
(* The tool at work on a project with more than one executable target *)

InitMulti ==
    /\ \E sc \in MultiScenarios :
         /\ toml = sc.cfg /\ cfg = sc.cfg
         /\ mtime = [f \in sc.tree.files |-> IF f \in sc.tree.newer THEN 2 ELSE 1]
         /\ data = [f \in sc.tree.files |-> <<f>>]
         /\ dirs = sc.tree.dirs
         /\ incl = sc.tree.incl
         /\ now = IF sc.tree.newer = {} THEN 1 ELSE 2
         /\ plat = sc.plat
    /\ res = FALSE /\ mode = "debug"
    /\ aborted = NoAbort /\ resumed = {} /\ tmpl = <<>> /\ expanded = <<>>
    /\ buildDir = "" /\ cacheDir = ""
    /\ pc = "idle" /\ status = -1 /\ steps = <<>> /\ procs = 0 /\ touches = 0
    /\ mainTarget = "" /\ built = [x \in {} |-> <<>>] /\ tq = <<>>
    /\ srcq = <<>> /\ objects = <<>> /\ allObjects = <<>>
    /\ pbi = 1 /\ pati = 1 /\ files = <<>> /\ copied = 0 /\ inBuild = FALSE
    /\ log = <<>> /\ runStart = 0 /\ prev = NoPrev /\ second = "none"
    /\ postStart = 0 /\ prevPost = NoPrev /\ secondPost = FALSE

SpecMulti == InitMulti /\ [][Next]_vars

----------------------------------------------------------------------------
(* The staleness oracle on its own: needsRecompile is applied to one source, *)
(* object and dependency file, over every filesystem within the bounds       *)

SrcA == <<"src", "a", ".c">>
ObjA == <<"out", "a", ".o">>
DepA == <<"out", "a", ".d">>
HdrH == <<"inc", "h", ".h">>

\* the items of a dependency file's text
DepItems == {HdrH, COLON, SPACE, BSLASH, NEWLINE, CRETURN}

DepTexts == UNION {[1..k -> DepItems] : k \in 0..MaxDepLen}

InitStale ==
    /\ \E ms \in [{SrcA, ObjA, HdrH} -> 0..MaxMTime] :
       \E hasDep \in BOOLEAN :
       \E text \in (IF hasDep THEN DepTexts ELSE {<<>>}) :
         LET there == {f \in {SrcA, ObjA, HdrH} : ms[f] > 0}
                      \cup (IF hasDep THEN {DepA} ELSE {})
         IN  /\ mtime = [f \in there |-> IF f = DepA THEN 1 ELSE ms[f]]
             /\ data = [f \in there |-> IF f = DepA THEN text ELSE <<f>>]
    /\ dirs = {".", "src", "inc", "out"}
    /\ now = MaxMTime
    /\ incl = [f \in {SrcA} |-> <<HdrH>>]
    /\ toml = GameCfg /\ cfg = GameCfg /\ mode = "debug" /\ plat = "linux"
    /\ aborted = NoAbort /\ resumed = {} /\ tmpl = <<>> /\ expanded = <<>>
    /\ res = FALSE
    /\ buildDir = "out" /\ cacheDir = "out"
    /\ pc = "probe" /\ status = -1 /\ steps = <<>> /\ procs = 0 /\ touches = 0
    /\ mainTarget = "" /\ built = [x \in {} |-> <<>>] /\ tq = <<>>
    /\ srcq = <<>> /\ objects = <<>> /\ allObjects = <<>>
    /\ pbi = 1 /\ pati = 1 /\ files = <<>> /\ copied = 0 /\ inBuild = FALSE
    /\ log = <<>> /\ runStart = 0 /\ prev = NoPrev /\ second = "none"
    /\ postStart = 0 /\ prevPost = NoPrev /\ secondPost = FALSE

\* the call needsRecompile(src, obj, dep) of buildTarget
probe ==
    /\ pc = "probe"
    /\ res' = needsRecompile(SrcA, ObjA, DepA)
    /\ pc' = "probed"
    /\ UNCHANGED <<fsVars, envVars, cfgVars, buildDir, cacheDir, status, steps, procs,
                   buildVars, postVars, log, runVars, postRunVars>>

NextStale == probe

SpecStale == InitStale /\ [][NextStale]_vars

----------------------------------------------------------------------------
(* expandVars on its own: it is applied twice to one template, over every   *)
(* template, variable mapping and output directory within the bounds        *)

\* the items of a template: the placeholders and an ordinary word
TmplItems == {PhRoot, PhOutput, PhExe, PhVar("a"), PhVar("b"), Word("x")}

Templates == UNION {[1..k -> TmplItems] : k \in 0..MaxTmplLen}

\* the [project.vars] tables: none, plain values, a value that holds the
\* placeholder of the other variable, values that hold a built-in placeholder
\* or nothing
VarTables ==
    { [k \in {} |-> <<>>],
      [k \in {"a", "b"} |-> IF k = "a" THEN <<Word("y")>> ELSE <<Word("z")>>],
      [k \in {"a", "b"} |-> IF k = "a" THEN <<PhVar("b"), Word("/inc")>>
                                       ELSE <<Word("z")>>],
      [k \in {"a", "b"} |-> IF k = "a" THEN <<PhOutput>> ELSE <<>>] }

\* the output directories: an ordinary name, and a name that reads as a
\* placeholder
OutputDirs == {"out", "{exe}"}

InitExpand ==
    /\ \E vt \in VarTables :
         /\ toml = [GameCfg EXCEPT !.Project.Vars = vt]
         /\ cfg = [GameCfg EXCEPT !.Project.Vars = vt]
    /\ buildDir \in OutputDirs /\ cacheDir = buildDir
    /\ tmpl \in Templates /\ expanded = <<>>
    /\ mtime = <<>> /\ data = <<>> /\ dirs = {"."} /\ now = 1
    /\ incl = <<>> /\ mode = "debug" /\ plat = "linux"
    /\ aborted = NoAbort /\ resumed = {}
    /\ res = FALSE
    /\ pc = "expand" /\ status = -1 /\ steps = <<>> /\ procs = 0 /\ touches = 0
    /\ mainTarget = "" /\ built = [x \in {} |-> <<>>] /\ tq = <<>>
    /\ srcq = <<>> /\ objects = <<>> /\ allObjects = <<>>
    /\ pbi = 1 /\ pati = 1 /\ files = <<>> /\ copied = 0 /\ inBuild = FALSE
    /\ log = <<>> /\ runStart = 0 /\ prev = NoPrev /\ second = "none"
    /\ postStart = 0 /\ prevPost = NoPrev /\ secondPost = FALSE

\* one call expandVars(tmpl); the range over cfg.Project.Vars takes the
\* variables in some order
expand ==
    /\ pc = "expand"
    /\ \E ks \in VarOrders : expanded' = Append(expanded, expandVars(tmpl, ks))
    /\ pc' = IF Len(expanded) = 0 THEN "expand" ELSE "expanded"
    /\ UNCHANGED <<fsVars, incl, toml, plat, touches, tmpl, cfgVars, res, buildDir,
                   cacheDir, status, steps, procs, buildVars, postVars, log,
                   runVars, postRunVars>>

NextExpand == expand

SpecExpand == InitExpand /\ [][NextExpand]_vars

----------------------------------------------------------------------------
(* Claims about expandVars (checked under SpecExpand) *)

\* what a placeholder stands for; any other item stands for itself
ValueOf(item) ==
    IF item = PhRoot THEN <<Word("/work")>>
    ELSE IF item = PhOutput THEN (IF buildDir = "" THEN <<>> ELSE <<Word(buildDir)>>)
    ELSE IF item = PhExe THEN <<Word(cfg.Project.Name)>>
    ELSE IF \E k \in DOMAIN cfg.Project.Vars : item = PhVar(k)
         THEN cfg.Project.Vars[CHOOSE k \in DOMAIN cfg.Project.Vars : item = PhVar(k)]
    ELSE <<item>>

\* the template with every placeholder replaced by its value, the values
\* left as they are
RECURSIVE SinglePass(_)
SinglePass(s) == IF s = <<>> THEN <<>> ELSE ValueOf(Head(s)) \o SinglePass(Tail(s))

\* C12 as stated: no recursive expansion.  The result of expandVars is the
\* template with each placeholder replaced by its value, and a placeholder
\* inside a value stands verbatim in the result.
C12_NoRecursiveExpansion ==
    \A i \in 1..Len(expanded) : expanded[i] = SinglePass(tmpl)

\* C13 as stated: determinism.  Two calls of expandVars on the same template
\* under the same configuration give the same string, whatever the order in
\* which the user-defined variables are applied.
C13_ExpansionDeterministic ==
    Len(expanded) = 2 => expanded[1] = expanded[2]

----------------------------------------------------------------------------
(* Claims about the staleness oracle (checked under SpecStale) *)

IsName(c) == c \notin {COLON, SPACE, BSLASH, NEWLINE, CRETURN}

\* item i of text c stands as a whole word: a name with a word boundary on
\* both sides (the ends of the text, white space, a backslash-newline
\* continuation, or the first colon on its left)
WholeWord(c, i) ==
    /\ IsName(c[i])
    /\ \/ i = 1
       \/ IsSpace(c[i - 1])
       \/ c[i - 1] = COLON /\ \A k \in 1..(i - 2) : c[k] # COLON
    /\ \/ i = Len(c)
       \/ IsSpace(c[i + 1])
       \/ i + 2 <= Len(c) /\ c[i + 1] = BSLASH /\ c[i + 2] = NEWLINE
       \/ i + 3 <= Len(c) /\ c[i + 1] = BSLASH /\ c[i + 2] = CRETURN
                          /\ c[i + 3] = NEWLINE

\* item i is listed after the first colon of the text
ListedAfterColon(c, i) == WholeWord(c, i) /\ \E k \in 1..(i - 1) : c[k] = COLON

\* item i is listed after the first colon, or anywhere in a text without colon
Listed(c, i) ==
    WholeWord(c, i) /\ ((\E k \in 1..Len(c) : c[k] = COLON) => \E k \in 1..(i - 1) : c[k] = COLON)

DepTextA == IF DepA \in DOMAIN data THEN data[DepA] ELSE <<>>

\* some dependency that is listed (in the sense L) exists and is strictly
\* newer than the object
NewerDep(L(_, _)) ==
    \E i \in 1..Len(DepTextA) :
        /\ L(DepTextA, i)
        /\ Exists(DepTextA[i])
        /\ ModTime(DepTextA[i]) > ModTime(ObjA)

\* C2: header-change propagation.  When the object exists, the source exists
\* and is not newer than the object, and the dependency file lists an
\* existing header that is strictly newer than the object, needsRecompile
\* returns true.
C2_HeaderChangePropagates ==
    (/\ pc = "probed"
     /\ Exists(ObjA) /\ Exists(SrcA) /\ ModTime(SrcA) <= ModTime(ObjA)
     /\ NewerDep(Listed))
    => res = TRUE

\* a probe in which only the header makes the object stale
C2_Witness ==
    /\ pc = "probed" /\ res = TRUE
    /\ Exists(ObjA) /\ Exists(SrcA) /\ ModTime(SrcA) < ModTime(ObjA)
    /\ NewerDep(ListedAfterColon)

\* C3 as stated: needsRecompile returns true exactly when the object is
\* missing, or the source is missing, or the source is strictly newer than
\* the object, or some dependency listed after the first colon of the
\* dependency file exists and is strictly newer than the object.
C3_PolicyAfterColon ==
    pc = "probed" =>
        (res <=> \/ ~Exists(ObjA)
                 \/ ~Exists(SrcA)
                 \/ ModTime(SrcA) > ModTime(ObjA)
                 \/ NewerDep(ListedAfterColon))

\* C3 amended: the same, a dependency file without a colon listing its
\* dependencies from its first word on.
C3_Policy ==
    pc = "probed" =>
        (res <=> \/ ~Exists(ObjA)
                 \/ ~Exists(SrcA)
                 \/ ModTime(SrcA) > ModTime(ObjA)
                 \/ NewerDep(Listed))

\* a probe answered true because of a header that a dependency file without
\* colon names
C3_Witness ==
    /\ pc = "probed" /\ res = TRUE
    /\ Exists(ObjA) /\ Exists(SrcA) /\ ModTime(SrcA) <= ModTime(ObjA)
    /\ \A k \in 1..Len(DepTextA) : DepTextA[k] # COLON
    /\ NewerDep(Listed)

----------------------------------------------------------------------------
(* Claims about the build (checked under Spec) *)

\* a doBuild run has begun in this process
HasRun == runStart < Len(log) /\ log[runStart + 1].k = "begin"

\* the executable target the run chose
RunMain == log[runStart + 1].t

NoExecutable == \A n \in DOMAIN cfg.Targets : cfg.Targets[n].Kind # "executable"

InRun(k) == {i \in RunIdx : log[i].k = k}

\* the run has left the build phase: doPostBuild was called, or the process
\* went on or ended
RunOver ==
    \/ InRun("postbuild") # {}
    \/ pc \in {"idle", "step"}

IsObject(p) == Len(p) = 3 /\ p[3] = ".o"

\* every object file is as the earlier run left it
ObjectsAsBefore ==
    \A p \in DOMAIN mtime \cup DOMAIN prev.m :
        IsObject(p) =>
            /\ p \in DOMAIN mtime /\ p \in DOMAIN prev.m
            /\ mtime[p] = prev.m[p] /\ data[p] = prev.d[p]

OwnObjs(n) ==
    {ObjPath(TargetOf(n), log[i].f) :
        i \in {j \in RunIdx : log[j].k \in {"cc", "skip"} /\ log[j].t = n}}

\* every object of target a stands before every object of target b in the
\* link command
LinkedBefore(a, b) ==
    \A p, q \in 1..Len(allObjects) :
        (allObjects[p] \in OwnObjs(a) /\ allObjects[q] \in OwnObjs(b)) => p < q

\* C4: dependency ordering.  For the executable target E and every target D
\* of its dependency list, the compiler invocations for D come before those
\* for E; in the link command the objects of D stand before the objects of
\* E, the dependencies in the order of the dependency list, and no object
\* is left out.
C4_DependencyOrder ==
    (HasRun /\ RunMain # "") =>
        LET deps == cfg.Targets[RunMain].Deps
        IN  \A d \in 1..Len(deps) :
              deps[d] # RunMain =>
                /\ \A i, j \in RunIdx :
                      (/\ log[i].k = "cc" /\ log[i].t = deps[d]
                       /\ log[j].k = "cc" /\ log[j].t = RunMain) => i < j
                /\ InRun("link") # {} =>
                      /\ LinkedBefore(deps[d], RunMain)
                      /\ \A e \in (d + 1)..Len(deps) :
                            deps[e] # deps[d] => LinkedBefore(deps[d], deps[e])
                      /\ OwnObjs(deps[d]) \cup OwnObjs(RunMain)
                            \subseteq {allObjects[p] : p \in 1..Len(allObjects)}

\* a run that compiled sources of both dependencies and of the executable
\* target, and linked
C4_Witness ==
    /\ HasRun /\ RunMain = "app"
    /\ \A n \in {"lib", "ext", "app"} :
          \E i \in RunIdx : log[i].k = "cc" /\ log[i].ok /\ log[i].t = n
    /\ InRun("link") # {}
    /\ Len(allObjects) = 4

\* C5: fail-fast on compiler failure.  A failed compiler invocation is the
\* last thing the process does: it has exited with status 1, and no later
\* source, target, link step or post-build step was attempted.
C5_CompileFailureIsFatal ==
    \A i \in 1..Len(log) :
        (log[i].k = "cc" /\ ~log[i].ok) =>
            /\ i = Len(log)
            /\ pc = "idle" /\ status = 1

\* the compiler failed on the first source of the executable target while a
\* second source was waiting
C5_Witness ==
    /\ pc = "idle" /\ status = 1
    /\ Len(log) > 0 /\ log[Len(log)].k = "cc" /\ ~log[Len(log)].ok
    /\ log[Len(log)].t = "app"
    /\ Len(srcq) = 2
    /\ InRun("link") = {} /\ InRun("postbuild") = {}

\* C6 as stated: every failure of an external process (compiler, linker,
\* post-build hook, exec: step of a custom command) ends the process with
\* status 1 before it does anything else.
C6_EveryToolFailureIsFatal ==
    \A i \in 1..Len(log) :
        (log[i].k \in {"cc", "link", "hook", "exec"} /\ ~log[i].ok) =>
            /\ i = Len(log)
            /\ pc = "idle" /\ status = 1

\* C7: without a target of kind executable, doBuild invokes neither the
\* compiler nor the linker, calls doPostBuild exactly once, and fails only
\* if a post-build hook fails.
C7_NoExecutable ==
    (HasRun /\ NoExecutable) =>
        /\ \A i \in RunIdx : log[i].k \notin {"cc", "skip", "link", "warn", "built"}
        /\ Cardinality(InRun("postbuild")) = 1
        /\ \A i \in RunIdx : ~log[i].ok => log[i].k \in {"hook", "copy"}
        /\ pc = "idle" =>
              \/ status = 0 /\ InRun("succeeded") # {}
              \/ status = 1 /\ log[Len(log)].k = "hook" /\ ~log[Len(log)].ok

\* a run without executable target that copied a file and reached its end
C7_Witness ==
    /\ HasRun /\ NoExecutable
    /\ InRun("copy") # {}
    /\ InRun("succeeded") # {}
    /\ \E n \in DOMAIN cfg.Targets : GlobAll(cfg.Targets[n].Sources) # <<>>

\* C8: the link step is unconditional.  A doBuild run with an executable
\* target in which no compiler invocation failed invokes the linker exactly
\* once, also when every source was skipped.
C8_LinkExactlyOnce ==
    (HasRun /\ ~NoExecutable) =>
        /\ Cardinality(InRun("link")) <= 1
        /\ (RunOver /\ \A i \in RunIdx : log[i].k = "cc" => log[i].ok)
              => Cardinality(InRun("link")) = 1

\* a run that skipped every source, linked, and reached its end
C8_Witness ==
    /\ HasRun /\ ~NoExecutable
    /\ InRun("cc") = {} /\ InRun("skip") # {}
    /\ \E i \in RunIdx : log[i].k = "link" /\ log[i].ok
    /\ InRun("succeeded") # {}

\* C9: strict sequencing.  The linker is invoked only after buildTarget has
\* returned for every dependency and for the executable target; doPostBuild
\* (its copies and hooks) starts only after the linker succeeded; after a
\* failed link the process has exited with status 1.
C9_StrictSequencing ==
    (HasRun /\ ~NoExecutable) =>
        \A i \in RunIdx :
            /\ log[i].k = "link" =>
                  /\ \A j \in RunIdx : (j < i /\ log[j].k = "cc") => log[j].ok
                  /\ \A d \in 1..Len(cfg.Targets[RunMain].Deps) :
                        \E j \in RunIdx : /\ j < i /\ log[j].k = "built"
                                          /\ log[j].t = cfg.Targets[RunMain].Deps[d]
                  /\ \E j \in RunIdx : /\ j < i /\ log[j].k = "built"
                                       /\ log[j].t = RunMain
                                       /\ \A d \in RunIdx :
                                            (log[d].k = "built" /\ log[d].t # RunMain)
                                               => d < j
            /\ log[i].k \in {"postbuild", "copy", "copied", "hook"} =>
                  \E j \in RunIdx : j < i /\ log[j].k = "link" /\ log[j].ok
            /\ (log[i].k = "link" /\ ~log[i].ok) =>
                  i = Len(log) /\ pc = "idle" /\ status = 1

\* a run in which the linker succeeded and the post-build step copied a file
\* and ran its hook
C9_Witness ==
    /\ HasRun /\ ~NoExecutable
    /\ \E i, j, k \in RunIdx :
          /\ i < j /\ j < k
          /\ log[i].k = "link" /\ log[i].ok
          /\ log[j].k = "copy"
          /\ log[k].k = "hook"

\* C10 as stated, its consequence: a doPostBuild run that begins on the
\* filesystem the previous doPostBuild run left copies nothing.
C10_SecondRunCopiesNothing ==
    secondPost => \A i \in PostIdx : log[i].k # "copy"

----------------------------------------------------------------------------
(* Claims about the post-build hooks (checked under Spec) *)

\* a new doPostBuild run begins between the events i and j of the log
NewPostRunBetween(i, j) == \E b \in (i + 1)..j : log[b].k = "postbuild"

\* C11: post-build hook.  A hook that is run in a post-build step is the
\* command of that step for the active platform (run_windows on windows,
\* run_linux otherwise); it is the only hook of that step and comes after
\* the step's copies, nothing of that step or of an earlier one follows it;
\* when it fails it is the last thing the process does, and the process
\* has exited with status 1.
C11_PostBuildHook ==
    \A i \in 1..Len(log) :
        log[i].k = "hook" =>
            LET pb == cfg.PostBuild[log[i].step]
                template == IF plat = "windows" THEN pb.RunWindows ELSE pb.RunLinux
            IN  /\ template # <<>>
                /\ \E ks \in VarOrders :
                      LET parts == Fields(expandVars(template, ks))
                      IN  parts # <<>> /\ log[i].f = parts[1]
                /\ \A j \in (i + 1)..Len(log) :
                      (/\ log[j].k \in {"copy", "copied", "hook"}
                       /\ log[j].step <= log[i].step) => NewPostRunBetween(i, j)
                /\ ~log[i].ok => (i = Len(log) /\ pc = "idle" /\ status = 1)

\* on windows, the hook of the first of two post-build steps failed after
\* the copies of its step
C11_Witness ==
    /\ plat = "windows" /\ Len(cfg.PostBuild) = 2
    /\ pc = "idle" /\ status = 1
    /\ Len(log) > 2
    /\ log[Len(log)].k = "hook" /\ ~log[Len(log)].ok /\ log[Len(log)].step = 1
    /\ \E j \in 1..Len(log) : log[j].k = "copy" /\ log[j].step = 1

----------------------------------------------------------------------------
(* Claims about the configuration (checked under Spec) *)

\* C14 as stated: configuration immutability.  The configuration the
\* process holds is the one it loaded: no operation changes a field of it,
\* and the debug and release flag lists of every target are as loaded.
C14_ConfigNeverChanges ==
    /\ cfg = toml
    /\ \A n \in DOMAIN toml.Targets :
          /\ cfg.Targets[n].Debug.Flags = toml.Targets[n].Debug.Flags
          /\ cfg.Targets[n].Release.Flags = toml.Targets[n].Release.Flags

----------------------------------------------------------------------------
(* Claims about aborted builds (checked under Spec) *)

\* the process has just exited on a failed compiler invocation
AbortedOnCompile ==
    /\ pc = "idle" /\ status = 1
    /\ Len(log) > 0 /\ log[Len(log)].k = "cc" /\ ~log[Len(log)].ok

\* C15: partial results are kept.  When a run has aborted on a failed
\* compiler invocation, the object of every source compiled earlier in the
\* run is on disk; and a doBuild run that begins on the filesystem the
\* aborted run left invokes the compiler for none of those sources: it
\* skips each of them.
C15_PartialResultsKept ==
    /\ AbortedOnCompile =>
          \A i \in RunIdx :
              (log[i].k = "cc" /\ log[i].ok) =>
                  /\ Exists(ObjPath(TargetOf(log[i].t), log[i].f))
                  /\ log[i].f \in aborted.done
    /\ HasRun =>
          \A i \in RunIdx :
              (log[i].k \in {"cc", "skip"} /\ log[i].f \in resumed)
                  => log[i].k = "skip"

\* a run after an aborted one that skipped a source compiled before the
\* failure and compiled the source the earlier run failed on
C15_Witness ==
    /\ HasRun /\ resumed # {}
    /\ \E i, j \in RunIdx :
          /\ i < j
          /\ log[i].k = "skip" /\ log[i].f \in resumed
          /\ log[j].k = "cc" /\ log[j].ok /\ log[j].f \notin resumed

----------------------------------------------------------------------------
(* Claims about the echo of commands (checked under Spec) *)

\* C16 as stated: echo before execution.  Every external process (compiler,
\* linker, post-build hook, exec: step, the played executable) comes
\* directly after an echo of its command.
C16_EchoBeforeExecution ==
    \A i \in 1..Len(log) :
        log[i].k \in {"cc", "link", "hook", "exec", "play"} =>
            /\ i > 1
            /\ log[i - 1].k \in {"echo", "running"}
            /\ log[i - 1].f = log[i].f

----------------------------------------------------------------------------
(* Claims about the targets doBuild builds (checked under Spec) *)

\* the names doBuild hands to buildTarget: the dependency list of the
\* executable target m, and m
DirectNames(m) ==
    {cfg.Targets[m].Deps[d] : d \in 1..Len(cfg.Targets[m].Deps)} \cup {m}

\* the paths the source patterns of target n can match
PatternPaths(n) ==
    {p \in Paths : \E k \in 1..Len(TargetOf(n).Sources) :
                      Match(TargetOf(n).Sources[k], p)}

\* a target with sources that only a dependency of m names
TransitiveOnly(m) ==
    {n \in DOMAIN cfg.Targets \ DirectNames(m) :
        /\ GlobAll(cfg.Targets[n].Sources) # <<>>
        /\ \E d \in DirectNames(m) \ {m} :
              \E k \in 1..Len(TargetOf(d).Deps) : TargetOf(d).Deps[k] = n}

\* C17: one-level dependency model.  Everything a doBuild run does for a
\* target (warning, compiler invocation, skip, link) it does for a name of
\* the executable target's own dependency list or for the executable
\* target; every object of the link command is an object of one of them.
C17_OneLevelDependencies ==
    (HasRun /\ RunMain # "") =>
        /\ \A i \in RunIdx : log[i].t # "" => log[i].t \in DirectNames(RunMain)
        /\ InRun("link") # {} =>
              \A p \in 1..Len(allObjects) :
                  \E n \in DirectNames(RunMain) : \E src \in PatternPaths(n) :
                      allObjects[p] = ObjPath(TargetOf(n), src)
        /\ \A n \in TransitiveOnly(RunMain) :
              /\ n \notin DOMAIN built
              /\ InRun("link") # {} =>
                    \A p \in 1..Len(allObjects) : \A src \in PatternPaths(n) :
                        allObjects[p] # ObjPath(TargetOf(n), src)

\* a run that built a dependency which names a target with sources, and
\* linked
C17_Witness ==
    /\ HasRun /\ RunMain # ""
    /\ TransitiveOnly(RunMain) # {}
    /\ \E i \in RunIdx : log[i].k = "cc" /\ log[i].ok /\ log[i].t # RunMain
    /\ \E i \in RunIdx : log[i].k = "link" /\ log[i].ok
    /\ Len(allObjects) = 2

\* C18: an empty target is not fatal.  buildTarget warns about a target
\* only when its patterns match no file; it then invokes no compiler for
\* it and returns the empty object list, and doBuild goes on: to the next
\* target or to the link step, and after a successful link to doPostBuild.
C18_EmptyTargetIsNotFatal ==
    (HasRun /\ RunMain # "") =>
        \A i \in RunIdx :
            log[i].k = "warn" =>
                /\ GlobAll(TargetOf(log[i].t).Sources) = <<>>
                /\ \A j \in RunIdx :
                      log[j].t = log[i].t => log[j].k \notin {"cc", "skip"}
                /\ log[i].t \in DOMAIN built /\ built[log[i].t] = <<>>
                /\ i < Len(log)
                /\ log[i + 1].k = "built" /\ log[i + 1].t = log[i].t
                /\ i + 1 = Len(log) =>
                      /\ status = -1
                      /\ pc \in {"buildTarget", "compile", "link"}
                      /\ pc = "link" <=> tq = <<>>
                /\ (RunOver /\ \A j \in RunIdx : log[j].k = "cc" => log[j].ok) =>
                      /\ \A n \in DirectNames(RunMain) :
                            \E j \in RunIdx : log[j].k = "built" /\ log[j].t = n
                      /\ \E j \in RunIdx : j > i /\ log[j].k = "link"
                /\ \A j \in RunIdx :
                      (log[j].k = "link" /\ log[j].ok) =>
                          (j < Len(log) /\ log[j + 1].k = "postbuild")

\* a run in which a dependency had no sources, and which compiled the
\* executable target, linked and reached its end
C18_Witness ==
    /\ HasRun /\ RunMain # ""
    /\ \E i, j, k \in RunIdx :
          /\ i < j /\ j < k
          /\ log[i].k = "warn" /\ log[i].t # RunMain
          /\ log[j].k = "cc" /\ log[j].ok /\ log[j].t = RunMain
          /\ log[k].k = "link" /\ log[k].ok
    /\ InRun("succeeded") # {}

----------------------------------------------------------------------------
(* Claims about object paths (checked under Spec) *)

\* buildTarget visited two different sources of one target with the same
\* base name at the events i and j of the log
SameBaseName(i, j) ==
    /\ log[i].k \in {"cc", "skip"} /\ log[j].k \in {"cc", "skip"}
    /\ log[i].t = log[j].t
    /\ log[i].f # log[j].f
    /\ Base(log[i].f) = Base(log[j].f)

ObjOf(i) == ObjPath(TargetOf(log[i].t), log[i].f)

----------------------------------------------------------------------------
(* Claims about the post-build command line (checked under Spec) *)

\* C20 as stated: a post-build step whose command template for the active
\* platform is not empty runs exactly one external process, whatever the
\* template expands to, and doPostBuild fails on it in no other way.
C20_HookRunsOneProcess ==
    /\ \A i \in 1..Len(log) : log[i].k # "panic"
    /\ status \in {-1, 0, 1}
    /\ \A s \in 1..Len(cfg.PostBuild) :
          (/\ PostIdx # {} /\ log[postStart + 1].k = "postbuild"
           /\ pc = "post" /\ pbi > s
           /\ (IF plat = "windows" THEN cfg.PostBuild[s].RunWindows
                                   ELSE cfg.PostBuild[s].RunLinux) # <<>>)
              => Cardinality({i \in PostIdx : log[i].k = "hook" /\ log[i].step = s}) = 1

----------------------------------------------------------------------------
(* Claims about the choice of the executable target (checked under         *)
(* SpecMulti)                                                              *)

\* C21 as stated: single executable target consistency.  The executable
\* target doBuild compiles and links is the one whose platform overlay
\* gave main the output directory, and every doBuild run of the process
\* takes the same target.
C21_SingleExecutableConsistency ==
    /\ (HasRun /\ RunMain # "") => buildDir = OutputOf(cfg.Targets[RunMain])
    /\ \A i, j \in 1..Len(log) :
          (log[i].k = "begin" /\ log[j].k = "begin") => log[i].t = log[j].t

----------------------------------------------------------------------------
(* Claims about the linker's argument list (checked under Spec)            *)

\* C22 as stated: no object path appears more than once in the argument
\* list doBuild passes to the linker, whatever the configuration (sources
\* with equal base names included).
C22_NoDuplicateLinkObjects ==
    (HasRun /\ InRun("link") # {}) =>
        \A p, q \in 1..Len(allObjects) : allObjects[p] = allObjects[q] => p = q

====
